---- MODULE Spec2Model ----
(***************************************************************************)
(* A model of pymongoext: the index/validator synchronization of Model     *)
(* (model.py), the manipulator pipeline (model.py, manipulators.py) and    *)
(* the document parser of the field tree (fields.py).                      *)
(***************************************************************************)
EXTENDS Integers, Sequences, FiniteSets, TLC

(***************************************************************************)
(* Bounds of the model.                                                    *)
(***************************************************************************)
\* operations (reads, writes, explicit _update calls) started in one run
MaxOps == 2
\* manipulators declared by the subclasses of Model, in all
MaxDecl == 2
\* subclasses in the chain below Model
MaxDepth == 2
\* calls of a default factory in one run
MaxClock == 2
\* the documents a collection holds at most
MaxStored == 2
\* the fields given to a union at most
MaxFields == 2
\* the entries of __indexes__ at most
MaxIx == 2
\* the items of a list entry at most
MaxKeys == 2

(***************************************************************************)
(* The declared models.  A is the model of test.py (two indexes); B has    *)
(* the same collection name in another database; C shares A's collection   *)
(* and has __auto_update__ = False; D declares no index.                   *)
(***************************************************************************)
Models == {"A", "B", "C", "D"}

Threads == {1, 2}

\* Model.name()
name(m) == IF m = "D" THEN "orders" ELSE "users"

\* Model.db()
db(m) == IF m = "B" THEN "db2" ELSE "db1"

\* Model.__auto_update__
auto_update(m) == m # "C"

\* i_names: the names of the IndexModels of Model._indexes()
i_names(m) ==
    CASE m = "A" -> {"name_1", "createdAt_-1"}
      [] m = "B" -> {"email_1"}
      [] m = "C" -> {"name_1"}
      [] OTHER -> {}

\* Model._validator(): each model compiles its own schema
validator_of(m) == m

\* db[name]: the collection a model reads and writes
NS(m) == <<db(m), name(m)>>

AllNS == {NS(m) : m \in Models}

\* index names a live collection may carry besides the primary one
IndexNames == {"name_1", "createdAt_-1", "email_1", "legacy_1"}

\* index names the collection of A and C may carry before the first run
PreExisting == {"name_1", "createdAt_-1", "legacy_1"}

VARIABLES
    upToDate,    \* Model._UPTO_DATE, the list of collection names marked
    colls,       \* storage: the collections that exist
    liveIdx,     \* storage: the index names of each collection
    liveVal,     \* storage: the validator installed on each collection
    pc,          \* per thread: where it is in its operation
    cur,         \* per thread: the model (cls) of its operation
    viaC,        \* per thread: _update was entered from c()
    existing,    \* per thread: _update's local list of index names
    pending,     \* per thread: the names of existing the loop has yet to drop
    createReq,   \* per thread: the names sent in the operation's create_indexes
    synced,      \* per thread: the operation ran _update to its end
    raised,      \* per thread: the operation ended in an exception
    log,         \* per thread: the events of the operation, in order
    opsStarted,  \* operations started so far
    autoRuns,    \* per model: runs of _update entered from c()
    accessed,    \* the auto-update models whose c() was called
    explicit,    \* collection names _update was called on explicitly
    failedOn,    \* collection names on which a run of _update failed
    startMarked, \* per thread: the name was marked when _update was entered
    classes,     \* the subclasses below Model, each the manipulators it declares
    applied,     \* the directions the pipeline has been applied in
    inTrace,     \* the manipulators apply_incoming_manipulators invoked, in order
    outTrace,    \* the manipulators apply_outgoing_manipulators invoked, in order
    schema,      \* Model.__schema__, the declared field tree
    clock,       \* the calls of the default factory so far
    last,        \* the last call of a parser: its arguments and its result
    store,       \* storage: the documents of the collection
    cursor,      \* the cursor find returned: its query and what is left of it
    rd,          \* the last read: its arguments and what it gave the caller
    tree,        \* a declared field
    comp,        \* the last two results of schema() on it
    indexes,     \* Model.__indexes__
    ixOut        \* what _indexes() returned or raised

syncVars == <<upToDate, colls, liveIdx, liveVal, pc, cur, viaC, existing,
              pending, createReq, synced, raised, log, opsStarted, autoRuns,
              accessed, explicit, failedOn, startMarked>>

manipVars == <<classes, applied, inTrace, outTrace>>

parseVars == <<schema, clock, last>>

readVars == <<store, cursor, rd>>

compVars == <<tree, comp>>

ixVars == <<indexes, ixOut>>

auxVars == <<readVars, compVars, ixVars>>

vars == <<syncVars, manipVars, parseVars, auxVars>>

InList(x, s) == \E i \in 1..Len(s) : s[i] = x

\* Model._should_update (a mutant: the marker is not consulted)
ShouldUpdateNoMarker(m) == auto_update(m)

\* Model._should_update (a mutant: the auto-update flag is not consulted)
ShouldUpdateNoFlag(m) == ~InList(name(m), upToDate)

\* Model._should_update
ShouldUpdate(m) == auto_update(m) /\ ~InList(name(m), upToDate)

\* the names the loop of _update drops (a mutant: nothing is dropped)
ToDropNone(ex, m) == {}

\* the names the loop of _update drops
ToDrop(ex, m) == {n \in ex : n # "_id_" /\ n \notin i_names(m)}

\* to_create of _update
ToCreate(ex, m) == {n \in i_names(m) : n \notin ex}

\* the names of the models passed to create_indexes: all of indexes
CreateRequest(ex, m) == i_names(m)

(***************************************************************************)
(* The document parser (fields.py) and the parse-inputs manipulator        *)
(* (manipulators.py).  A value is a record [t, n]: t the Python type, n    *)
(* which value of it.  Numbers are counted in halves (n = 3 is 1.5).       *)
(***************************************************************************)
S(t, n) == [t |-> t, n |-> n]

\* None
NoneV == S("none", 0)

\* the key is not in the dict
Absent == S("absent", 0)

\* the call raised instead of returning
Raise == S("raise", 0)

\* str values: "estr" the empty string, "nstr" the numeral of the number n,
\* "wstr" a word that is no numeral, "hex" 24 hex digits
IsStr(v) == v.t \in {"estr", "nstr", "wstr", "hex"}

\* the keys of a document: the identifier, a property, a dotted path
Keys == {"_id", "a", "u.v"}

\* the values a key takes in an input document
ValuesOf(k) ==
    CASE k = "_id" -> {Absent, NoneV, S("hex", 1), S("oid", 1), S("wstr", 0)}
      [] k = "a" -> {Absent, NoneV, S("num", 2), S("estr", 0), S("nstr", 3),
                     S("wstr", 0)}
      [] OTHER -> {Absent, NoneV, S("nstr", 3), S("num", 2)}

Docs == {f \in [Keys -> UNION {ValuesOf(k) : k \in Keys}] :
            \A k \in Keys : f[k] \in ValuesOf(k)}

\* {}
EmptyDoc == [k \in Keys |-> Absent]

KeysOf(f) == {k \in Keys : f[k] # Absent}

\* str(value)
PyStr(v) ==
    CASE IsStr(v) -> v
      [] v.t = "num" -> S("nstr", v.n)
      [] v.t = "oid" -> S("hex", v.n)
      [] OTHER -> S("wstr", 0)

\* _float(x): None for "" and None, else fast_float(x, raise_on_invalid=True)
Float(v) ==
    CASE v.t \in {"estr", "none"} -> NoneV
      [] v.t = "num" -> v
      [] v.t = "nstr" -> S("num", v.n)
      [] OTHER -> Raise

\* int(value), towards zero
PyInt(v) == IF v.t = "num" THEN S("num", v.n - (v.n % 2)) ELSE v

\* bson.ObjectId(value)
ObjectId(v) ==
    CASE v.t = "hex" -> S("oid", v.n)
      [] v.t = "oid" -> v
      [] OTHER -> Raise

\* list(value)
PyList(v) == IF v.t = "list" THEN v ELSE IF IsStr(v) THEN S("list", 1) ELSE Raise

\* Field._parse_non_null_value and its overrides
ParseNonNull(kind, v) ==
    CASE kind = "string" -> PyStr(v)
      [] kind \in {"number", "long"} -> Float(v)
      [] kind = "int" -> PyInt(Float(v))
      [] kind = "objectId" -> ObjectId(v)
      [] kind = "array" -> PyList(v)
      [] OTHER -> v

\* a field: its kind and its default (NoneV: none declared; "factory": a
\* callable; else a static value)
Field(kind, dflt) == [kind |-> kind, dflt |-> dflt]

\* no field declared under the key
NoField == Field("undeclared", NoneV)

\* ObjectIDField()
ObjectIDField == Field("objectId", NoneV)

\* self.default(): the factory of the model is a clock
CallFactory(clk) == S("tick", clk)

\* Field.parse for value None: the default, called or deep-copied
Resolve(f, wd, clk) ==
    IF ~wd \/ f.dflt = NoneV
      THEN [v |-> NoneV, calls |-> 0, alias |-> FALSE]
      ELSE IF f.dflt.t = "factory"
        THEN [v |-> CallFactory(clk), calls |-> 1, alias |-> FALSE]
        ELSE [v |-> f.dflt, calls |-> 0, alias |-> FALSE]

\* Field.parse(value, with_default)
FieldParse(f, v, wd, clk) ==
    IF v # NoneV
      THEN [v |-> ParseNonNull(f.kind, v), calls |-> 0, alias |-> FALSE]
      ELSE Resolve(f, wd, clk)

\* the fields a schema declares under "a"
AFields ==
    {Field(k, d) : k \in {"string", "number", "int"},
                   d \in {NoneV, S("num", 2), S("nstr", 3), S("factory", 0)}}

\* the fields of additional_props=<Field>
ExtraFields == {Field("string", NoneV), Field("number", S("num", 2))}

\* declared properties: _id an ObjectIDField or undeclared, a any field or
\* undeclared, the dotted path never
PropsDicts ==
    {q \in [Keys -> AFields \cup {NoField, ObjectIDField}] :
        /\ q["_id"] \in {NoField, ObjectIDField}
        /\ q["a"] \in AFields \cup {NoField}
        /\ q["u.v"] = NoField}

\* DictField(props, additional_props): additional_props True ("allow"),
\* False ("deny") or a field
DictSchema(none, p, m, x) ==
    [isDict |-> TRUE, propsNone |-> none, props |-> p, addl |-> m, extra |-> x]

\* __schema__ = None
NoSchema ==
    [isDict |-> FALSE, propsNone |-> TRUE, props |-> [k \in Keys |-> NoField],
     addl |-> "allow", extra |-> NoField]

\* the schemas a model may declare
Schemas ==
    {DictSchema(FALSE, p, m, NoField) : p \in PropsDicts, m \in {"allow", "deny"}}
    \cup {DictSchema(FALSE, p, "field", x) : p \in PropsDicts, x \in ExtraFields}
    \cup {DictSchema(TRUE, [k \in Keys |-> NoField], "field", x) : x \in ExtraFields}
    \cup {DictSchema(TRUE, [k \in Keys |-> NoField], "allow", NoField)}
    \cup {NoSchema}

\* props of DictField.parse: {} for None, and in root mode an ObjectIDField
\* under _id when none is declared
PropsOf(sch, root) ==
    LET p == IF sch.propsNone THEN [k \in Keys |-> NoField] ELSE sch.props
    IN  IF root /\ p["_id"] = NoField THEN [p EXCEPT !["_id"] = ObjectIDField]
        ELSE p

\* self.props after the call: props is self.props itself unless it was None
SchemaAfter(sch, root) ==
    IF sch.propsNone THEN sch ELSE [sch EXCEPT !.props = PropsOf(sch, root)]

\* one key of DictField.parse: the given keys are parsed, the missing ones
\* get a default that is not None, the additional ones follow the policy
ParseKey(sch, props, data, k, wd, clk) ==
    IF props[k] # NoField
      THEN IF data[k] # Absent
             THEN FieldParse(props[k], data[k], wd, clk)
             ELSE IF wd
               THEN LET r == FieldParse(props[k], NoneV, TRUE, clk)
                    IN  IF r.v = NoneV THEN [r EXCEPT !.v = Absent] ELSE r
               ELSE [v |-> Absent, calls |-> 0, alias |-> FALSE]
      ELSE IF data[k] = Absent \/ sch.addl = "deny"
             THEN [v |-> Absent, calls |-> 0, alias |-> FALSE]
             ELSE IF sch.addl = "field"
               THEN FieldParse(sch.extra, data[k], wd, clk)
               ELSE [v |-> data[k], calls |-> 0, alias |-> FALSE]

\* what a call of a parser returns: raised, or None, or the document f; the
\* factory calls it made; the schema it leaves behind
Returned(exc, isNone, f, calls, sch) ==
    [raised |-> exc, isNone |-> isNone, f |-> f, calls |-> calls, sch |-> sch]

\* DictField.parse(value, with_defaults, is_schema)
DictParse(sch, isNone, value, wd, root, clk) ==
    IF isNone /\ ~wd
      THEN Returned(FALSE, TRUE, EmptyDoc, 0, sch)
      ELSE LET data == IF isNone THEN EmptyDoc ELSE value
               props == PropsOf(sch, root)
               r == [k \in Keys |-> ParseKey(sch, props, data, k, wd, clk)]
               n == Cardinality({k \in Keys : r[k].calls > 0})
           IN  Returned(\E k \in Keys : r[k].v = Raise, FALSE,
                        [k \in Keys |-> r[k].v], n, SchemaAfter(sch, root))

\* Model.parse(data, with_defaults)
ModelParse(sch, isNone, value, wd, clk) ==
    IF sch.isDict
      THEN DictParse(sch, isNone, value, wd, TRUE, clk)
      ELSE Returned(FALSE, isNone, value, 0, sch)

\* the operators of an update document
OpKeys == {"$set", "$inc"}

\* an update document: the operators it has and the document under each
EmptyBody == [o \in OpKeys |-> EmptyDoc]

\* the documents under $inc
IncDocs == {[k \in Keys |-> IF k = "a" THEN S("num", 2) ELSE Absent]}

\* with_defaults of model.parse on CREATE and REPLACE
CreateWithDefaults == TRUE

\* with_defaults of model.parse on the $set document (a mutant)
UpdateFillsDefaults == TRUE

\* with_defaults of model.parse on the $set document
UpdateWithDefaults == FALSE

\* what transform_incoming returns: raised, or the document (out, or the
\* update document ops and body)
Transformed(r, out, ops, body) ==
    [raised |-> r.raised, out |-> out, ops |-> ops, body |-> body,
     calls |-> r.calls, sch |-> r.sch]

\* ParseInputsManipulator.transform_incoming(doc, model, action): doc is the
\* document plain on CREATE and REPLACE, the update document (ops, body) on
\* UPDATE
TransformIncoming(sch, action, plain, ops, body, clk) ==
    IF action \in {"CREATE", "REPLACE"}
      THEN LET r == ModelParse(sch, FALSE, plain, CreateWithDefaults, clk)
           IN  Transformed(r, r.f, ops, body)
      ELSE IF action = "UPDATE" /\ "$set" \in ops
        THEN LET r == ModelParse(sch, FALSE, body["$set"], UpdateWithDefaults, clk)
             IN  Transformed(r, plain, ops, [body EXCEPT !["$set"] = r.f])
        ELSE Transformed(Returned(FALSE, FALSE, plain, 0, sch), plain, ops, body)

\* the kinds of field: leaves, array, object and map, unions, negation
FieldKinds ==
    {"string", "number", "int", "long", "bool", "objectId", "timestamp",
     "null", "array", "object", "map", "oneOf", "anyOf", "allOf", "not"}

\* the defaults a field may declare: none, static values, a factory
Defaults == {NoneV, S("num", 2), S("list", 0), S("factory", 0)}

\* parse(value, with_defaults) of a field of any kind: DictField and MapField
\* override Field.parse, the other kinds inherit it
AnyParse(f, sch, isNone, v, value, wd, clk) ==
    IF f.kind \in {"object", "map"}
      THEN LET r == DictParse(sch, isNone, value, wd, FALSE, clk)
           IN  [raised |-> r.raised, isDoc |-> ~r.isNone, v |-> NoneV,
                f |-> r.f, calls |-> r.calls, alias |-> FALSE]
      ELSE LET r == FieldParse(f, v, wd, clk)
           IN  [raised |-> r.v = Raise, isDoc |-> FALSE, v |-> r.v,
                f |-> EmptyDoc, calls |-> r.calls, alias |-> r.alias]

\* no call made yet
NoCall ==
    [op |-> "none", action |-> "none", wd |-> FALSE, root |-> FALSE,
     field |-> NoField, sch |-> NoSchema, clk |-> 0,
     inNone |-> FALSE, in |-> EmptyDoc, ops |-> {}, body |-> EmptyBody,
     raised |-> FALSE, outNone |-> FALSE, outDoc |-> FALSE, v |-> NoneV,
     alias |-> FALSE, out |-> EmptyDoc, oops |-> {}, obody |-> EmptyBody,
     againRaised |-> FALSE, again |-> EmptyDoc]

\* a stored document: its _id and its name; None
StoredDoc(i, n) == [id |-> i, name |-> n]

NoDoc == StoredDoc(0, "none")

\* a filter: None, a dict on name or on _id, or a value that is no dict
Filter(kind, key, n, i) == [kind |-> kind, key |-> key, name |-> n, id |-> i]

NoFilter == Filter("none", "none", "none", 0)

\* what a read gave its caller: the exception raised, or the document (found)
\* and the manipulators invoked on it, in order; before is the store the
\* read found
ReadResult(op, f, exc, found, doc, trace, before) ==
    [op |-> op, filter |-> f, exc |-> exc, found |-> found, doc |-> doc,
     trace |-> trace, before |-> before]

NoRead == ReadResult("none", NoFilter, "none", FALSE, NoDoc, <<>>, {})

\* no cursor
NoCursor == [open |-> FALSE, q |-> NoFilter, rest |-> <<>>]

ReadIdle ==
    /\ store = {}
    /\ cursor = NoCursor
    /\ rd = NoRead

\* no field declared, no schema() called
NoTree == [cls |-> "none", required |-> FALSE, fields |-> <<>>]

NoComp == <<>>

CompIdle ==
    /\ tree = NoTree
    /\ comp = NoComp

\* no index declared, _indexes() not called
NoIx == [called |-> FALSE, raised |-> FALSE, models |-> <<>>, decl |-> <<>>]

IxIdle ==
    /\ indexes = <<>>
    /\ ixOut = NoIx

AuxIdle == ReadIdle /\ CompIdle /\ IxIdle

ParseIdle ==
    /\ schema = NoSchema
    /\ clock = 0
    /\ last = NoCall

\* no class declared, no pipeline applied
ManipIdle ==
    /\ classes = <<>>
    /\ applied = {}
    /\ inTrace = <<>>
    /\ outTrace = <<>>

SyncInit ==
    /\ ManipIdle
    /\ ParseIdle
    /\ AuxIdle
    /\ upToDate = <<>>
    /\ colls \in {{}, {<<"db1", "users">>}}
    /\ \E s \in SUBSET PreExisting :
         liveIdx = [ns \in AllNS |->
                      IF ns \in colls THEN {"_id_"} \cup s ELSE {}]
    /\ liveVal = [ns \in AllNS |-> "none"]
    /\ pc = [t \in Threads |-> "idle"]
    /\ cur = [t \in Threads |-> "A"]
    /\ viaC = [t \in Threads |-> FALSE]
    /\ existing = [t \in Threads |-> {}]
    /\ pending = [t \in Threads |-> {}]
    /\ createReq = [t \in Threads |-> {}]
    /\ synced = [t \in Threads |-> FALSE]
    /\ raised = [t \in Threads |-> FALSE]
    /\ log = [t \in Threads |-> <<>>]
    /\ opsStarted = 0
    /\ autoRuns = [m \in Models |-> 0]
    /\ accessed = {}
    /\ explicit = {}
    /\ failedOn = {}
    /\ startMarked = [t \in Threads |-> FALSE]

\* what every operation resets when it starts
Begin(t, m, first) ==
    /\ pc[t] = "idle"
    /\ opsStarted < MaxOps
    /\ opsStarted' = opsStarted + 1
    /\ cur' = [cur EXCEPT ![t] = m]
    /\ existing' = [existing EXCEPT ![t] = {}]
    /\ pending' = [pending EXCEPT ![t] = {}]
    /\ createReq' = [createReq EXCEPT ![t] = {}]
    /\ synced' = [synced EXCEPT ![t] = FALSE]
    /\ raised' = [raised EXCEPT ![t] = FALSE]
    /\ startMarked' = [startMarked EXCEPT ![t] = InList(name(m), upToDate)]
    /\ log' = [log EXCEPT ![t] = first]
    /\ UNCHANGED <<upToDate, colls, liveIdx, liveVal, failedOn>>
    /\ UNCHANGED <<manipVars, parseVars, auxVars>>

\* Model.c(): _update when _should_update, then the collection
EnterC(t, m) ==
    /\ accessed' = IF auto_update(m) THEN accessed \cup {m} ELSE accessed
    /\ UNCHANGED explicit
    /\ IF ShouldUpdate(m)
         THEN /\ pc' = [pc EXCEPT ![t] = "u_create"]
              /\ viaC' = [viaC EXCEPT ![t] = TRUE]
              /\ autoRuns' = [autoRuns EXCEPT ![m] = @ + 1]
         ELSE /\ pc' = [pc EXCEPT ![t] = "op"]
              /\ viaC' = [viaC EXCEPT ![t] = FALSE]
              /\ UNCHANGED autoRuns

\* a read (find, find_one, ...): c(), then the storage call
Read(t) ==
    \E m \in Models :
        /\ Begin(t, m, <<>>)
        /\ EnterC(t, m)

\* a write (insert_one, update_one, ...): the incoming manipulators, then
\* c(), then the storage call
Write(t) ==
    \E m \in Models :
        /\ Begin(t, m, <<"manip">>)
        /\ EnterC(t, m)

\* an explicit call of Model._update
Update(t) ==
    \E m \in Models :
        /\ Begin(t, m, <<>>)
        /\ pc' = [pc EXCEPT ![t] = "u_create"]
        /\ viaC' = [viaC EXCEPT ![t] = FALSE]
        /\ explicit' = explicit \cup {name(m)}
        /\ UNCHANGED <<autoRuns, accessed>>

frame == <<cur, viaC, opsStarted, autoRuns, accessed, explicit, startMarked,
           manipVars, parseVars, auxVars>>

\* Collection(db, name, validator=validator): creates the collection, or
\* raises OperationFailure (it exists, or the command is refused)
UCreate(t) ==
    /\ pc[t] = "u_create"
    /\ log' = [log EXCEPT ![t] = Append(@, "sync")]
    /\ \/ /\ NS(cur[t]) \notin colls
          /\ colls' = colls \cup {NS(cur[t])}
          /\ liveIdx' = [liveIdx EXCEPT ![NS(cur[t])] = {"_id_"}]
          /\ liveVal' = [liveVal EXCEPT ![NS(cur[t])] = validator_of(cur[t])]
          /\ pc' = [pc EXCEPT ![t] = "u_list"]
       \/ /\ pc' = [pc EXCEPT ![t] = "u_collmod"]
          /\ UNCHANGED <<colls, liveIdx, liveVal>>
    /\ UNCHANGED <<upToDate, existing, pending, createReq, synced, raised,
                   failedOn>>
    /\ UNCHANGED frame

\* except OperationFailure: db.command(collMod); fails on a missing collection
UCollMod(t) ==
    /\ pc[t] = "u_collmod"
    /\ IF NS(cur[t]) \in colls
         THEN /\ liveVal' = [liveVal EXCEPT ![NS(cur[t])] = validator_of(cur[t])]
              /\ pc' = [pc EXCEPT ![t] = "u_list"]
              /\ UNCHANGED <<raised, failedOn>>
         ELSE /\ pc' = [pc EXCEPT ![t] = "idle"]
              /\ raised' = [raised EXCEPT ![t] = TRUE]
              /\ failedOn' = failedOn \cup {name(cur[t])}
              /\ UNCHANGED liveVal
    /\ UNCHANGED <<upToDate, colls, liveIdx, existing, pending, createReq,
                   synced, log>>
    /\ UNCHANGED frame

\* existing = list(collection.index_information().keys())
UList(t) ==
    /\ pc[t] = "u_list"
    /\ existing' = [existing EXCEPT ![t] = liveIdx[NS(cur[t])]]
    /\ pending' = [pending EXCEPT ![t] = ToDrop(liveIdx[NS(cur[t])], cur[t])]
    /\ pc' = [pc EXCEPT ![t] = "u_drop"]
    /\ UNCHANGED <<upToDate, colls, liveIdx, liveVal, createReq, synced,
                   raised, log, failedOn>>
    /\ UNCHANGED frame

\* collection.drop_index(name), one name of the loop; dropping an index that
\* is no longer there fails
UDrop(t) ==
    /\ pc[t] = "u_drop"
    /\ \E n \in pending[t] :
         IF n \in liveIdx[NS(cur[t])]
           THEN /\ liveIdx' = [liveIdx EXCEPT ![NS(cur[t])] = @ \ {n}]
                /\ pending' = [pending EXCEPT ![t] = @ \ {n}]
                /\ UNCHANGED <<pc, raised, failedOn>>
           ELSE /\ pc' = [pc EXCEPT ![t] = "idle"]
                /\ raised' = [raised EXCEPT ![t] = TRUE]
                /\ failedOn' = failedOn \cup {name(cur[t])}
                /\ UNCHANGED <<liveIdx, pending>>
    /\ UNCHANGED <<upToDate, colls, liveVal, existing, createReq, synced, log>>
    /\ UNCHANGED frame

\* if len(to_create) > 0: collection.create_indexes(indexes)
UCreateIndexes(t) ==
    /\ pc[t] = "u_drop"
    /\ pending[t] = {}
    /\ IF ToCreate(existing[t], cur[t]) # {}
         THEN /\ createReq' = [createReq EXCEPT ![t] =
                                 CreateRequest(existing[t], cur[t])]
              /\ liveIdx' = [liveIdx EXCEPT ![NS(cur[t])] =
                               @ \cup CreateRequest(existing[t], cur[t])]
         ELSE UNCHANGED <<createReq, liveIdx>>
    /\ pc' = [pc EXCEPT ![t] = "u_mark"]
    /\ UNCHANGED <<upToDate, colls, liveVal, existing, pending, synced,
                   raised, log, failedOn>>
    /\ UNCHANGED frame

\* Model._UPTO_DATE after _on_update (a mutant: nothing is appended)
OnUpdateNothing(marked, n) == marked

\* Model._UPTO_DATE after _on_update
OnUpdate(marked, n) == Append(marked, n)

\* cls._on_update(), and the return from _update
UMark(t) ==
    /\ pc[t] = "u_mark"
    /\ upToDate' = OnUpdate(upToDate, name(cur[t]))
    /\ synced' = [synced EXCEPT ![t] = TRUE]
    /\ pc' = [pc EXCEPT ![t] = IF viaC[t] THEN "op" ELSE "idle"]
    /\ UNCHANGED <<colls, liveIdx, liveVal, existing, pending, createReq,
                   raised, log, failedOn>>
    /\ UNCHANGED frame

\* where an exception raised in _update leaves the thread (a mutant: c()
\* swallows it and goes on to the storage call)
RaiseSwallowed(fromC) == IF fromC THEN "op" ELSE "idle"

\* where an exception raised in _update leaves the thread: neither _update
\* nor c() nor the wrappers catch it
RaiseLeaves(fromC) == "idle"

\* a storage command of _update raises (refused, connection lost): the
\* exception leaves _update and the operation
UFail(t) ==
    /\ pc[t] \in {"u_create", "u_collmod", "u_list", "u_drop"}
    /\ pc[t] = "u_drop" => (pending[t] # {} \/ ToCreate(existing[t], cur[t]) # {})
    /\ pc' = [pc EXCEPT ![t] = RaiseLeaves(viaC[t])]
    /\ raised' = [raised EXCEPT ![t] = TRUE]
    /\ failedOn' = failedOn \cup {name(cur[t])}
    /\ UNCHANGED <<upToDate, colls, liveIdx, liveVal, existing, pending,
                   createReq, synced, log>>
    /\ UNCHANGED frame

\* the storage call of a read or a write, on the collection c() returned
StorageOp(t) ==
    /\ pc[t] = "op"
    /\ log' = [log EXCEPT ![t] = Append(@, "store")]
    /\ pc' = [pc EXCEPT ![t] = "idle"]
    /\ UNCHANGED <<upToDate, colls, liveIdx, liveVal, existing, pending,
                   createReq, synced, raised, failedOn>>
    /\ UNCHANGED frame

Step(t) ==
    \/ Read(t)
    \/ Write(t)
    \/ Update(t)
    \/ UCreate(t)
    \/ UCollMod(t)
    \/ UList(t)
    \/ UDrop(t)
    \/ UCreateIndexes(t)
    \/ UMark(t)
    \/ UFail(t)
    \/ StorageOp(t)

\* one thread
Next == Step(1)

Spec == SyncInit /\ [][Next]_vars

\* two threads, interleaved at the storage commands
NextConc == \E t \in Threads : Step(t)

SpecConc == SyncInit /\ [][NextConc]_vars

(***************************************************************************)
(* The manipulator pipeline (model.py, manipulators.py).                   *)
(***************************************************************************)
\* IdWithoutUnderscoreManipulator: priority 0, both transforms overridden
IdMan ==
    [key |-> "IdWithoutUnderscoreManipulator", priority |-> 0,
     inc |-> TRUE, out |-> TRUE, lvl |-> 0]

\* ParseInputsManipulator: priority 7, transform_incoming overridden
ParseMan ==
    [key |-> "ParseInputsManipulator", priority |-> 7,
     inc |-> TRUE, out |-> FALSE, lvl |-> 0]

\* MunchManipulator: priority -1, both transforms overridden
MunchMan ==
    [key |-> "MunchManipulator", priority |-> 0 - 1,
     inc |-> TRUE, out |-> TRUE, lvl |-> 0]

\* the manipulators in Model.__dict__, in the order of the class body
ModelDict == <<IdMan, ParseMan, MunchMan>>

\* attribute names a subclass may declare a manipulator under: two of its
\* own, and the slot of a built-in one
UserKeys == {"X", "Y", "IdWithoutUnderscoreManipulator"}

\* priorities of declared manipulators: those of the built-in ones and the
\* default of Manipulator
Priorities == {0, 5, 7}

\* the manipulators a subclass at depth d may declare: both transforms
\* overridden, or transform_outgoing alone (as DummyManipulator of test.py)
UserMans(d) ==
    {[key |-> k, priority |-> p, inc |-> i, out |-> TRUE, lvl |-> d] :
        k \in UserKeys, p \in Priorities, i \in BOOLEAN}

\* mans[key] = item: a key gathered before keeps its place in the dict
Put(mans, e) ==
    IF \E i \in 1..Len(mans) : mans[i].key = e.key
      THEN [i \in 1..Len(mans) |-> IF mans[i].key = e.key THEN e ELSE mans[i]]
      ELSE Append(mans, e)

\* for key, item in klass.__dict__.items()
RECURSIVE PutAll(_, _)
PutAll(mans, es) ==
    IF es = <<>> THEN mans ELSE PutAll(Put(mans, Head(es)), Tail(es))

\* _extract_manipulators: the bases first, then the class's own
RECURSIVE Extract(_, _)
Extract(mans, cs) ==
    IF cs = <<>> THEN mans ELSE Extract(PutAll(mans, Head(cs)), Tail(cs))

\* sorted(): where an item goes (a mutant: before the items of equal key)
InsertBeforeEqual(sorted, e) ==
    LET k == Cardinality({i \in 1..Len(sorted) : sorted[i].priority < e.priority})
    IN  SubSeq(sorted, 1, k) \o <<e>> \o SubSeq(sorted, k + 1, Len(sorted))

\* sorted() is stable: an item goes after the items of smaller or equal key
Insert(sorted, e) ==
    LET k == Cardinality({i \in 1..Len(sorted) : sorted[i].priority <= e.priority})
    IN  SubSeq(sorted, 1, k) \o <<e>> \o SubSeq(sorted, k + 1, Len(sorted))

RECURSIVE SortInto(_, _)
SortInto(sorted, es) ==
    IF es = <<>> THEN sorted ELSE SortInto(Insert(sorted, Head(es)), Tail(es))

\* sorted(mans.values(), key=lambda man: man.priority)
SortByPriority(es) == SortInto(<<>>, es)

\* Model.manipulators() of the most derived class
manipulators == SortByPriority(Extract(<<>>, <<ModelDict>> \o classes))

\* _manipulator_method_overwritten(manipulator, 'transform_incoming')
OverridesIncoming(e) == e.inc

\* _manipulator_method_overwritten(manipulator, 'transform_outgoing')
OverridesOutgoing(e) == e.out

\* the order apply_outgoing_manipulators walks the list in (a mutant:
\* backwards)
OutgoingReversed(ms) == [i \in 1..Len(ms) |-> ms[Len(ms) + 1 - i]]

\* the order apply_outgoing_manipulators walks the list in
OutgoingOrder(ms) == ms

\* the sync state while the pipeline is exercised
SyncIdle ==
    /\ upToDate = <<>>
    /\ colls = {}
    /\ liveIdx = [ns \in AllNS |-> {}]
    /\ liveVal = [ns \in AllNS |-> "none"]
    /\ pc = [t \in Threads |-> "idle"]
    /\ cur = [t \in Threads |-> "A"]
    /\ viaC = [t \in Threads |-> FALSE]
    /\ existing = [t \in Threads |-> {}]
    /\ pending = [t \in Threads |-> {}]
    /\ createReq = [t \in Threads |-> {}]
    /\ synced = [t \in Threads |-> FALSE]
    /\ raised = [t \in Threads |-> FALSE]
    /\ log = [t \in Threads |-> <<>>]
    /\ opsStarted = 0
    /\ autoRuns = [m \in Models |-> 0]
    /\ accessed = {}
    /\ explicit = {}
    /\ failedOn = {}
    /\ startMarked = [t \in Threads |-> FALSE]

ManipInit == SyncIdle /\ ManipIdle /\ ParseIdle /\ AuxIdle

\* the declarations of a chain of classes, ancestors first
RECURSIVE Flatten(_)
Flatten(cs) == IF cs = <<>> THEN <<>> ELSE Head(cs) \o Flatten(Tail(cs))

\* a class statement: a new subclass of the most derived class
DeclareClass ==
    /\ applied = {}
    /\ Len(classes) < MaxDepth
    /\ classes' = Append(classes, <<>>)
    /\ UNCHANGED <<applied, inTrace, outTrace>>
    /\ UNCHANGED <<syncVars, parseVars, auxVars>>

\* a manipulator declared in the body of the most derived class
DeclareManipulator ==
    /\ applied = {}
    /\ classes # <<>>
    /\ Len(Flatten(classes)) < MaxDecl
    /\ \E e \in UserMans(Len(classes)) :
         classes' = [classes EXCEPT ![Len(classes)] = Append(@, e)]
    /\ UNCHANGED <<applied, inTrace, outTrace>>
    /\ UNCHANGED <<syncVars, parseVars, auxVars>>

\* Model.apply_incoming_manipulators
ApplyIncoming ==
    /\ "in" \notin applied
    /\ applied' = applied \cup {"in"}
    /\ inTrace' = SelectSeq(manipulators, OverridesIncoming)
    /\ UNCHANGED <<classes, outTrace>>
    /\ UNCHANGED <<syncVars, parseVars, auxVars>>

\* Model.apply_outgoing_manipulators, on a document that is not None
ApplyOutgoing ==
    /\ "out" \notin applied
    /\ applied' = applied \cup {"out"}
    /\ outTrace' = SelectSeq(OutgoingOrder(manipulators), OverridesOutgoing)
    /\ UNCHANGED <<classes, inTrace>>
    /\ UNCHANGED <<syncVars, parseVars, auxVars>>

ManipNext ==
    \/ DeclareClass
    \/ DeclareManipulator
    \/ ApplyIncoming
    \/ ApplyOutgoing

SpecManip == ManipInit /\ [][ManipNext]_vars

ParseInit ==
    /\ SyncIdle
    /\ ManipIdle
    /\ AuxIdle
    /\ schema \in Schemas
    /\ clock = 0
    /\ last = NoCall

\* Model.parse(data, with_defaults) (root) or __schema__.parse(data,
\* with_defaults) on a document or None
Parse ==
    /\ last.op = "none"
    /\ \E root \in {r \in BOOLEAN : ~r => schema.isDict}, wd \in BOOLEAN,
          isNone \in BOOLEAN :
         \E d \in IF isNone THEN {EmptyDoc} ELSE Docs :
            LET r == IF root THEN ModelParse(schema, isNone, d, wd, clock)
                     ELSE DictParse(schema, isNone, d, wd, FALSE, clock)
            IN  /\ clock + r.calls <= MaxClock
                /\ clock' = clock + r.calls
                /\ schema' = r.sch
                /\ last' = [NoCall EXCEPT !.op = "parse", !.wd = wd,
                               !.root = root, !.sch = schema, !.clk = clock,
                               !.inNone = isNone, !.in = d,
                               !.raised = r.raised, !.outNone = r.isNone,
                               !.outDoc = ~r.isNone, !.out = r.f]
    /\ UNCHANGED <<syncVars, manipVars, auxVars>>

\* the same parse again, on the document the last parse returned
ParseAgain ==
    /\ last.op = "parse"
    /\ ~last.raised
    /\ last.outDoc
    /\ LET r == IF last.root
                  THEN ModelParse(schema, FALSE, last.out, last.wd, clock)
                  ELSE DictParse(schema, FALSE, last.out, last.wd, FALSE, clock)
       IN  /\ clock + r.calls <= MaxClock
           /\ clock' = clock + r.calls
           /\ schema' = r.sch
           /\ last' = [last EXCEPT !.op = "again", !.againRaised = r.raised,
                          !.again = r.f]
    /\ UNCHANGED <<syncVars, manipVars, auxVars>>

\* what a call of transform_incoming leaves in the state
AfterTransform(action, d, ops, b) ==
    LET r == TransformIncoming(schema, action, d, ops, b, clock)
    IN  /\ clock + r.calls <= MaxClock
        /\ clock' = clock + r.calls
        /\ schema' = r.sch
        /\ last' = [NoCall EXCEPT !.op = "transform", !.action = action,
                       !.sch = schema, !.clk = clock, !.in = d, !.ops = ops,
                       !.body = b, !.raised = r.raised, !.outDoc = TRUE,
                       !.out = r.out, !.oops = r.ops, !.obody = r.body]

\* ParseInputsManipulator.transform_incoming on a document to create or to
\* replace with
TransformWhole ==
    /\ last.op = "none"
    /\ \E action \in {"CREATE", "REPLACE"}, d \in Docs :
         AfterTransform(action, d, {}, EmptyBody)
    /\ UNCHANGED <<syncVars, manipVars, auxVars>>

\* ParseInputsManipulator.transform_incoming on an update document
TransformUpdate ==
    /\ last.op = "none"
    /\ \E ops \in SUBSET OpKeys :
         \E sd \in IF "$set" \in ops THEN Docs ELSE {EmptyDoc},
            id \in IF "$inc" \in ops THEN IncDocs ELSE {EmptyDoc} :
            AfterTransform("UPDATE", EmptyDoc, ops,
                           [o \in OpKeys |-> IF o = "$set" THEN sd ELSE id])
    /\ UNCHANGED <<syncVars, manipVars, auxVars>>

\* parse(None, with_defaults) of a field of any kind and any default; an
\* object or map field has the properties of the schema
ParseNone ==
    /\ last.op = "none"
    /\ schema.isDict
    /\ \E kind \in FieldKinds, dflt \in Defaults, wd \in BOOLEAN :
         LET r == AnyParse(Field(kind, dflt), schema, TRUE, NoneV, EmptyDoc,
                           wd, clock)
         IN  /\ clock + r.calls <= MaxClock
             /\ clock' = clock + r.calls
             /\ last' = [NoCall EXCEPT !.op = "none_in", !.wd = wd,
                            !.field = Field(kind, dflt), !.sch = schema,
                            !.clk = clock, !.inNone = TRUE,
                            !.raised = r.raised,
                            !.outNone = ~r.isDoc /\ r.v = NoneV,
                            !.outDoc = r.isDoc, !.v = r.v, !.alias = r.alias,
                            !.out = r.f]
    /\ UNCHANGED schema
    /\ UNCHANGED <<syncVars, manipVars, auxVars>>

\* the caller is done with the result of the call
Return ==
    /\ last.op # "none"
    /\ last' = NoCall
    /\ UNCHANGED <<schema, clock>>
    /\ UNCHANGED <<syncVars, manipVars, auxVars>>

ParseNext ==
    \/ Parse
    \/ ParseAgain
    \/ TransformWhole
    \/ TransformUpdate
    \/ ParseNone
    \/ Return

SpecParse == ParseInit /\ [][ParseNext]_vars

(***************************************************************************)
(* Reads (model.py get and _limited_cursor, cursor.py, binder.py).         *)
(***************************************************************************)
\* the names a stored document may have
DocNames == {"x", "y"}

\* the documents a collection may hold, at most one under each _id
Stores ==
    {s \in SUBSET {StoredDoc(i, n) : i \in 1..MaxStored, n \in DocNames} :
        \A d, e \in s : d.id = e.id => d = e}

\* the filters that are None or a dict
DictFilters ==
    {NoFilter} \cup {Filter("dict", "name", n, 0) : n \in DocNames}
    \cup {Filter("dict", "_id", "none", i) : i \in 1..MaxStored}

\* the filters that are a value of another type
ValueFilters == {Filter("value", "none", "none", i) : i \in 1..MaxStored}

\* _limited_cursor: a filter that is not None and no dict queries _id
AsQuery(f) ==
    IF f.kind = "value" THEN Filter("dict", "_id", "none", f.id) ELSE f

\* the stored documents a query matches
Matching(q, s) ==
    {d \in s : \/ q.kind = "none"
               \/ q.key = "name" /\ d.name = q.name
               \/ q.key = "_id" /\ d.id = q.id}

\* the documents in the order the storage returns them
RECURSIVE Ordered(_)
Ordered(ds) ==
    IF ds = {} THEN <<>>
    ELSE LET d == CHOOSE x \in ds : \A y \in ds : x.id <= y.id
         IN  <<d>> \o Ordered(ds \ {d})

\* count > 1 of get (a mutant: never)
TooManyNever(count) == FALSE

\* count > 1 of get
TooMany(count) == count > 1

\* Model.apply_outgoing_manipulators(doc): the invocations it adds to those
\* the document went through before
ApplyOutgoingManipulators(isNone, trace) ==
    IF isNone THEN trace
    ELSE trace \o SelectSeq(OutgoingOrder(manipulators), OverridesOutgoing)

\* the collection of model A is marked and in place: c() returns it
SyncedA ==
    /\ upToDate = <<name("A")>>
    /\ colls = {NS("A")}
    /\ liveIdx = [ns \in AllNS |->
                    IF ns = NS("A") THEN {"_id_"} \cup i_names("A") ELSE {}]
    /\ liveVal = [ns \in AllNS |->
                    IF ns = NS("A") THEN validator_of("A") ELSE "none"]
    /\ pc = [t \in Threads |-> "idle"]
    /\ cur = [t \in Threads |-> "A"]
    /\ viaC = [t \in Threads |-> FALSE]
    /\ existing = [t \in Threads |-> {}]
    /\ pending = [t \in Threads |-> {}]
    /\ createReq = [t \in Threads |-> {}]
    /\ synced = [t \in Threads |-> FALSE]
    /\ raised = [t \in Threads |-> FALSE]
    /\ log = [t \in Threads |-> <<>>]
    /\ opsStarted = 0
    /\ autoRuns = [m \in Models |-> 0]
    /\ accessed = {}
    /\ explicit = {}
    /\ failedOn = {}
    /\ startMarked = [t \in Threads |-> FALSE]

\* the model is Model itself, or a subclass that declares one manipulator
\* overriding transform_outgoing alone (as DummyManipulator of test.py)
ReadInit ==
    /\ SyncedA
    /\ ParseIdle
    /\ CompIdle
    /\ IxIdle
    /\ classes \in {<<>>} \cup {<<<<e>>>> : e \in {u \in UserMans(1) : u.key = "X" /\ ~u.inc}}
    /\ applied = {}
    /\ inTrace = <<>>
    /\ outTrace = <<>>
    /\ store \in Stores
    /\ cursor = NoCursor
    /\ rd = NoRead

readFrame == <<syncVars, manipVars, parseVars, compVars, ixVars>>

\* Model.get(filter): count, then cursor.next() of the WrappedCursor, then
\* apply_outgoing_manipulators on what it returned
Get ==
    /\ \E f \in DictFilters \cup ValueFilters :
         LET found == Ordered(Matching(AsQuery(f), store))
             count == Len(found)
         IN  rd' = IF count < 1
                     THEN ReadResult("get", f, "NoDocumentFound", FALSE, NoDoc,
                                     <<>>, store)
                   ELSE IF TooMany(count)
                     THEN ReadResult("get", f, "MultipleDocumentsFound", FALSE,
                                     NoDoc, <<>>, store)
                   ELSE ReadResult("get", f, "none", TRUE, found[1],
                            ApplyOutgoingManipulators(FALSE,
                                ApplyOutgoingManipulators(FALSE, <<>>)),
                            store)
    /\ UNCHANGED <<store, cursor>>
    /\ UNCHANGED readFrame

\* what _wrap_outgoing returns: the document the storage call gave, or None,
\* through apply_outgoing_manipulators
WrapOutgoing(op, f, found) ==
    IF found = <<>>
      THEN ReadResult(op, f, "none", FALSE, NoDoc,
                      ApplyOutgoingManipulators(TRUE, <<>>), store)
      ELSE ReadResult(op, f, "none", TRUE, found[1],
                      ApplyOutgoingManipulators(FALSE, <<>>), store)

\* find_one(filter)
FindOne ==
    /\ \E f \in DictFilters :
         rd' = WrapOutgoing("find_one", f, Ordered(Matching(f, store)))
    /\ UNCHANGED <<store, cursor>>
    /\ UNCHANGED readFrame

\* find_one_and_delete(filter): the document is removed and returned
FindOneAndDelete ==
    /\ \E f \in DictFilters :
         LET found == Ordered(Matching(f, store))
         IN  /\ rd' = WrapOutgoing("find_one_and_delete", f, found)
             /\ store' = IF found = <<>> THEN store ELSE store \ {found[1]}
    /\ UNCHANGED cursor
    /\ UNCHANGED readFrame

\* find_one_and_update and find_one_and_replace with the name "y": the
\* document gets the name and is returned as it was before
FindOneAndModify ==
    /\ \E method \in {"find_one_and_update", "find_one_and_replace"},
          f \in DictFilters, n \in {"y"} :
         LET found == Ordered(Matching(f, store))
         IN  /\ rd' = WrapOutgoing(method, f, found)
             /\ store' = IF found = <<>> THEN store
                         ELSE (store \ {found[1]})
                                \cup {StoredDoc(found[1].id, n)}
    /\ UNCHANGED cursor
    /\ UNCHANGED readFrame

\* find(filter): a WrappedCursor, no document yet
Find ==
    /\ \E f \in DictFilters :
         /\ cursor' = [open |-> TRUE, q |-> f,
                       rest |-> Ordered(Matching(f, store))]
         /\ rd' = ReadResult("find", f, "none", FALSE, NoDoc, <<>>, store)
    /\ UNCHANGED store
    /\ UNCHANGED readFrame

\* WrappedCursor.next, also __next__ of an iteration
CursorNext ==
    /\ cursor.open
    /\ IF cursor.rest = <<>>
         THEN /\ rd' = ReadResult("next", cursor.q, "StopIteration", FALSE,
                                  NoDoc, <<>>, store)
              /\ UNCHANGED cursor
         ELSE /\ rd' = ReadResult("next", cursor.q, "none", TRUE,
                                  Head(cursor.rest),
                                  ApplyOutgoingManipulators(FALSE, <<>>), store)
              /\ cursor' = [cursor EXCEPT !.rest = Tail(@)]
    /\ UNCHANGED store
    /\ UNCHANGED readFrame

\* WrappedCursor.__getitem__(index) with an integer index
CursorGetItem ==
    /\ cursor.open
    /\ \E i \in 0..(MaxStored - 1) :
         LET found == Ordered(Matching(cursor.q, store))
         IN  rd' = IF i < Len(found)
                     THEN ReadResult("getitem", cursor.q, "none", TRUE,
                                     found[i + 1],
                                     ApplyOutgoingManipulators(FALSE, <<>>),
                                     store)
                     ELSE ReadResult("getitem", cursor.q, "IndexError", FALSE,
                                     NoDoc, <<>>, store)
    /\ UNCHANGED <<store, cursor>>
    /\ UNCHANGED readFrame

ReadNext ==
    \/ Get
    \/ FindOne
    \/ FindOneAndDelete
    \/ FindOneAndModify
    \/ Find
    \/ CursorNext
    \/ CursorGetItem

SpecRead == ReadInit /\ [][ReadNext]_vars

(***************************************************************************)
(* Compilation of a field to its validator fragment (fields.py schema).    *)
(***************************************************************************)
\* a field: its class, its required flag, the fields it was given
FieldNode(cls, required, fields) ==
    [cls |-> cls, required |-> required, fields |-> fields]

\* NullField(): the constructor takes no required flag
NullField == FieldNode("NullField", FALSE, <<>>)

\* __type__ of the class
TypeOf(cls) ==
    CASE cls = "StringField" -> "string"
      [] cls = "IntField" -> "int"
      [] cls = "NullField" -> "null"
      [] OTHER -> "none"

\* the classes of _WithListFieldsInput
Unions == {"OneOf", "AnyOf", "AllOf"}

\* __add_null__ of the class (a mutant: AllOf inherits True)
AddNullAlways(cls) == TRUE

\* __add_null__ of the class
AddNull(cls) == cls # "AllOf"

\* inflection.underscore of a class name
Underscore(s) ==
    CASE s = "OneOf" -> "one_of"
      [] s = "AnyOf" -> "any_of"
      [] s = "AllOf" -> "all_of"
      [] OTHER -> s

\* inflection.camelize(k, uppercase_first_letter=False) of an attribute key
Camelize(s) ==
    CASE s = "one_of" -> "oneOf"
      [] s = "any_of" -> "anyOf"
      [] s = "all_of" -> "allOf"
      [] s = "bson_type" -> "bsonType"
      [] OTHER -> s

\* a bsonType: a bare tag, or a list of tags; none when bson_type is None
BareType(t) == [list |-> FALSE, of |-> <<t>>]

ListType(ts) == [list |-> TRUE, of |-> ts]

NoType == [list |-> FALSE, of |-> <<>>]

\* Field._bson_type (a mutant: the flag is not consulted)
BsonTypeBare(f) ==
    IF TypeOf(f.cls) = "none" THEN NoType ELSE BareType(TypeOf(f.cls))

\* Field._bson_type
BsonType(f) ==
    IF TypeOf(f.cls) = "none" THEN NoType
    ELSE IF TypeOf(f.cls) = "null" \/ f.required THEN BareType(TypeOf(f.cls))
    ELSE ListType(<<TypeOf(f.cls), "null">>)

\* the fragment schema() returns: bsonType, and the key and the fragments of
\* the deferred attributes
Fragment(bt, key, branches) ==
    [bsonType |-> bt, key |-> key, branches |-> branches]

\* the copies _deferred_attributes compiles: of a union, each field with
\* required set, and a NullField after them if the union adds one and is
\* not required; of Not, the field with the negated flag
Copies(f) ==
    IF f.cls \in Unions
      THEN LET fs == [i \in 1..Len(f.fields) |->
                        [f.fields[i] EXCEPT !.required = TRUE]]
           IN  IF AddNull(f.cls) /\ ~f.required THEN Append(fs, NullField)
               ELSE fs
    ELSE IF f.cls = "Not"
      THEN <<[f.fields[1] EXCEPT !.required = ~f.required]>>
    ELSE <<>>

\* the key of the deferred attributes, as schema() renders it
DeferredKey(f) ==
    IF f.cls \in Unions THEN Camelize(Underscore(f.cls))
    ELSE IF f.cls = "Not" THEN "not"
    ELSE "none"

\* Field.schema
RECURSIVE Schema(_)
Schema(f) ==
    LET cs == Copies(f)
    IN  Fragment(BsonType(f), DeferredKey(f),
                 [i \in 1..Len(cs) |-> Schema(cs[i])])

\* the leaves: typed fields of either flag, and the null field
Leaves ==
    {FieldNode(c, r, <<>>) : c \in {"StringField", "IntField"}, r \in BOOLEAN}
    \cup {NullField}

\* the fields given to a union: leaves, and a union or a negation of a leaf
Children ==
    Leaves
    \cup {FieldNode(c, r, <<FieldNode("StringField", FALSE, <<>>)>>) :
            c \in {"OneOf", "AllOf", "Not"}, r \in BOOLEAN}

\* the sequences of 1..n children
RECURSIVE ChildSeqs(_)
ChildSeqs(n) ==
    IF n = 0 THEN {}
    ELSE [1..n -> Children] \cup ChildSeqs(n - 1)

\* the declared fields: a leaf, or a union of at most MaxFields fields
Trees ==
    Leaves
    \cup {FieldNode(c, r, fs) : c \in Unions, r \in BOOLEAN,
                                fs \in ChildSeqs(MaxFields)}

CompInit ==
    /\ SyncIdle
    /\ ManipIdle
    /\ ParseIdle
    /\ ReadIdle
    /\ IxIdle
    /\ tree \in Trees
    /\ comp = NoComp

compFrame == <<syncVars, manipVars, parseVars, readVars, ixVars>>

\* field.schema(): comp keeps the last two calls, each the field as it was
\* and the fragment returned
CallSchema ==
    /\ comp' = (IF Len(comp) = 2 THEN Tail(comp) ELSE comp)
                  \o <<[f |-> tree, out |-> Schema(tree)]>>
    /\ UNCHANGED tree
    /\ UNCHANGED compFrame

\* field.required = b, between two calls
SetRequired ==
    /\ \E b \in BOOLEAN :
         /\ b # tree.required
         /\ tree' = [tree EXCEPT !.required = b]
    /\ UNCHANGED comp
    /\ UNCHANGED compFrame

CompNext ==
    \/ CallSchema
    \/ SetRequired

SpecComp == CompInit /\ [][CompNext]_vars

(***************************************************************************)
(* Index normalization (model.py _indexes).  A string is the sequence of   *)
(* its parts: "-createdAt" is <<"-", "createdAt">>.                        *)
(***************************************************************************)
\* pymongo.ASCENDING, pymongo.DESCENDING
ASCENDING == 1

DESCENDING == 0 - 1

\* an entry of __indexes__: a str s, a tuple (s, dir), a list of items, an
\* IndexModel with its keys, its name and its background option, or a value
\* of another type ("int")
Entry(kind, s, dir, items, keys, nm, bg) ==
    [kind |-> kind, s |-> s, dir |-> dir, items |-> items, keys |-> keys,
     name |-> nm, bg |-> bg]

StrEntry(s) == Entry("str", s, 0, <<>>, <<>>, <<>>, FALSE)

TupleEntry(s, d) == Entry("tuple", s, d, <<>>, <<>>, <<>>, FALSE)

ListEntry(items) == Entry("list", <<>>, 0, items, <<>>, <<>>, FALSE)

IntEntry == Entry("int", <<>>, 0, <<>>, <<>>, <<>>, FALSE)

\* index.startswith(c)
StartsWith(s, c) == Len(s) > 0 /\ s[1] = c

\* the direction _tuple gives a string prefixed - (a mutant: ascending)
MinusAscending == ASCENDING

\* the direction _tuple gives a string prefixed -
MinusDirection == DESCENDING

\* _tuple(index): the key, or ValueError
TupleOf(index) ==
    IF index.kind = "tuple" THEN [ok |-> TRUE, key |-> <<index.s, index.dir>>]
    ELSE IF index.kind # "str" THEN [ok |-> FALSE, key |-> <<<<>>, 0>>]
    ELSE IF StartsWith(index.s, "-")
      THEN [ok |-> TRUE, key |-> <<Tail(index.s), MinusDirection>>]
    ELSE IF StartsWith(index.s, "+")
      THEN [ok |-> TRUE, key |-> <<Tail(index.s), ASCENDING>>]
    ELSE [ok |-> TRUE, key |-> <<index.s, ASCENDING>>]

\* the name pymongo generates for an IndexModel built without one: each key
\* and its direction, joined
RECURSIVE GenName(_)
GenName(keys) ==
    IF keys = <<>> THEN <<>>
    ELSE Head(keys)[1] \o <<IF Head(keys)[2] = ASCENDING THEN "1" ELSE "-1">>
           \o GenName(Tail(keys))

\* IndexModel(keys)
IndexModel(keys) ==
    Entry("model", <<>>, 0, <<>>, keys, GenName(keys), FALSE)

\* _model(index): the IndexModel flagged background, or ValueError
ModelOf(index) ==
    LET ts == IF index.kind = "list"
                THEN [i \in 1..Len(index.items) |-> TupleOf(index.items[i])]
                ELSE <<TupleOf(index)>>
        im == IF index.kind = "model" THEN index
              ELSE IndexModel([i \in 1..Len(ts) |-> ts[i].key])
    IN  [ok |-> index.kind = "model" \/ \A i \in 1..Len(ts) : ts[i].ok,
         m |-> [im EXCEPT !.bg = TRUE]]

\* [_model(i) for i in cls.__indexes__]: the models so far, the entries as
\* the calls leave them (an IndexModel entry is flagged in place), and
\* whether a call raised
RECURSIVE ModelsOf(_, _, _)
ModelsOf(done, models, todo) ==
    IF todo = <<>> THEN [raised |-> FALSE, models |-> models, entries |-> done]
    ELSE LET r == ModelOf(Head(todo))
         IN  IF ~r.ok
               THEN [raised |-> TRUE, models |-> <<>>, entries |-> done \o todo]
               ELSE ModelsOf(Append(done, IF Head(todo).kind = "model" THEN r.m
                                          ELSE Head(todo)),
                             Append(models, r.m), Tail(todo))

\* the strings: a name, bare or prefixed
IndexStrings ==
    {<<"name">>, <<"+", "name">>, <<"-", "name">>, <<"-", "createdAt">>,
     <<"+", "-", "name">>}

\* (name, direction) pairs
IndexTuples ==
    {TupleEntry(<<"name">>, ASCENDING), TupleEntry(<<"name">>, DESCENDING),
     TupleEntry(<<"createdAt">>, DESCENDING)}

\* the items of a list entry: strings, a pair, a value of another type
ListItems ==
    {StrEntry(<<"name">>), StrEntry(<<"-", "createdAt">>),
     TupleEntry(<<"name">>, DESCENDING), IntEntry}

\* the sequences of 1..n items
RECURSIVE ItemSeqs(_)
ItemSeqs(n) == IF n = 0 THEN {} ELSE [1..n -> ListItems] \cup ItemSeqs(n - 1)

\* IndexModel instances the user built: without a name, with a name of
\* their own, with the background option unset
UserModels ==
    {IndexModel(<<<<<<"name">>, ASCENDING>>>>),
     [IndexModel(<<<<<<"name">>, ASCENDING>>>>) EXCEPT !.name = <<"mine">>],
     [IndexModel(<<<<<<"name">>, DESCENDING>>>>) EXCEPT !.bg = TRUE]}

\* the entries of __indexes__
Entries ==
    {StrEntry(s) : s \in IndexStrings} \cup IndexTuples
    \cup {ListEntry(is) : is \in ItemSeqs(MaxKeys)} \cup UserModels
    \cup {IntEntry}

\* the sequences of 1..n entries
RECURSIVE EntrySeqs(_)
EntrySeqs(n) == IF n = 0 THEN {} ELSE [1..n -> Entries] \cup EntrySeqs(n - 1)

IxInit ==
    /\ SyncIdle
    /\ ManipIdle
    /\ ParseIdle
    /\ ReadIdle
    /\ CompIdle
    /\ indexes \in EntrySeqs(MaxIx)
    /\ ixOut = NoIx

ixFrame == <<syncVars, manipVars, parseVars, readVars, compVars>>

\* cls._indexes(): decl keeps __indexes__ as it was declared
CallIndexes ==
    /\ ~ixOut.called
    /\ LET r == ModelsOf(<<>>, <<>>, indexes)
       IN  /\ ixOut' = [called |-> TRUE, raised |-> r.raised,
                        models |-> r.models, decl |-> indexes]
           /\ indexes' = r.entries
    /\ UNCHANGED ixFrame

\* the result goes out of scope
DropIndexes ==
    /\ ixOut.called
    /\ ixOut' = [ixOut EXCEPT !.called = FALSE]
    /\ UNCHANGED indexes
    /\ UNCHANGED ixFrame

IxNext ==
    \/ CallIndexes
    \/ DropIndexes

SpecIx == IxInit /\ [][IxNext]_vars

(***************************************************************************)
(* Claims on the synchronization.                                          *)
(***************************************************************************)
Names == {name(m) : m \in Models}

RECURSIVE SumRuns(_)
SumRuns(ms) ==
    IF ms = {} THEN 0
    ELSE LET m == CHOOSE x \in ms : TRUE IN autoRuns[m] + SumRuns(ms \ {m})

\* the runs of _update entered from c() for a collection name
AutoRunsOn(n) == SumRuns({m \in Models : name(m) = n})

\* C1: in one thread, while no run of _update has failed on a collection
\* name, c() has entered _update for that name at most once, and exactly once
\* as soon as an auto-update model of that name has been accessed (no
\* explicit _update having marked the name before).
C1_SyncOnceOnFirstAccess ==
    \A n \in Names :
        n \notin failedOn =>
            /\ AutoRunsOn(n) <= 1
            /\ (n \notin explicit /\ \E m \in accessed : name(m) = n)
                  => AutoRunsOn(n) = 1

\* C1 witness: the second access of A finds the name marked and goes to the
\* storage call without a second run.
C1_Witness ==
    /\ opsStarted = 2
    /\ cur[1] = "A"
    /\ pc[1] = "op"
    /\ ~viaC[1]
    /\ autoRuns["A"] = 1
    /\ failedOn = {}
    /\ explicit = {}

\* C2: when a run of _update has completed in the only thread, the index
\* names of the live collection are exactly _id_ and the declared names.
C2_IndexesReconciled ==
    \A t \in Threads :
        synced[t] => liveIdx[NS(cur[t])] = {"_id_"} \cup i_names(cur[t])

\* C2 witness: a completed run that found an undeclared index and lacked a
\* declared one.
C2_Witness ==
    /\ synced[1]
    /\ cur[1] = "A"
    /\ "legacy_1" \in existing[1]
    /\ "createdAt_-1" \notin existing[1]
    /\ "name_1" \in existing[1]

\* C3: the create_indexes request of a run holds only declared indexes whose
\* names were not on the live collection.
C3_CreateOnlyMissing ==
    \A t \in Threads :
        createReq[t] \subseteq {n \in i_names(cur[t]) : n \notin existing[t]}

\* C4: a model with auto-update disabled never enters _update from c(); its
\* runs of _update are explicit calls, and a completed explicit call has
\* installed its validator and reconciled its indexes, whether or not the
\* name was marked when it started.
C4_DisabledOnlyExplicit ==
    /\ \A m \in Models : ~auto_update(m) => autoRuns[m] = 0
    /\ \A t \in Threads :
          ~auto_update(cur[t]) =>
              /\ pc[t] \in {"u_create", "u_collmod", "u_list", "u_drop", "u_mark"}
                    => ~viaC[t]
              /\ synced[t] =>
                    /\ ~viaC[t]
                    /\ liveIdx[NS(cur[t])] = {"_id_"} \cup i_names(cur[t])
                    /\ liveVal[NS(cur[t])] = validator_of(cur[t])

\* C4 witness: C's explicit _update, started on a marked name, has dropped
\* the index A's run had created.
C4_Witness ==
    /\ cur[1] = "C"
    /\ synced[1]
    /\ startMarked[1]
    /\ "createdAt_-1" \in existing[1]
    /\ "createdAt_-1" \notin liveIdx[NS("C")]
    /\ liveVal[NS("C")] = validator_of("C")

(***************************************************************************)
(* Claims on the manipulator pipeline.                                     *)
(***************************************************************************)
\* every declaration of the hierarchy, ancestors first
Declared == ModelDict \o Flatten(classes)

\* the place of an attribute name in the gathering: its first declaration
Slot(k) == CHOOSE i \in 1..Len(Declared) :
               /\ Declared[i].key = k
               /\ \A j \in 1..(i - 1) : Declared[j].key # k

\* the manipulator an attribute name resolves to: its last declaration
Resolved(k) ==
    Declared[CHOOSE i \in 1..Len(Declared) :
                 /\ Declared[i].key = k
                 /\ \A j \in (i + 1)..Len(Declared) : Declared[j].key # k]

InPriorityOrder(tr) ==
    \A i, j \in 1..Len(tr) :
        i < j => \/ tr[i].priority < tr[j].priority
                 \/ /\ tr[i].priority = tr[j].priority
                    /\ Slot(tr[i].key) < Slot(tr[j].key)

\* C5: both apply_incoming_manipulators and apply_outgoing_manipulators
\* invoke the resolved manipulators in ascending priority, those of equal
\* priority in the order their attribute names were gathered (ancestors
\* first); two manipulators invoked in both directions keep their order.
C5_AscendingBothWays ==
    /\ "in" \in applied =>
          /\ InPriorityOrder(inTrace)
          /\ \A i \in 1..Len(inTrace) : inTrace[i] = Resolved(inTrace[i].key)
    /\ "out" \in applied =>
          /\ InPriorityOrder(outTrace)
          /\ \A i \in 1..Len(outTrace) : outTrace[i] = Resolved(outTrace[i].key)
    /\ applied = {"in", "out"} =>
          \A i, j \in 1..Len(inTrace) : \A k, l \in 1..Len(outTrace) :
              (i < j /\ inTrace[i] = outTrace[k] /\ inTrace[j] = outTrace[l])
                  => k < l

\* C5 witness: both directions applied on a hierarchy of two subclasses
\* whose manipulators of priorities 7 and 5 join the built-in 0: two
\* manipulators of priority 7 tie, and the outgoing run invokes four.
C5_Witness ==
    /\ applied = {"in", "out"}
    /\ Len(classes) = 2
    /\ \E i \in 1..(Len(inTrace) - 1) :
          /\ inTrace[i].priority = 7
          /\ inTrace[i + 1].priority = 7
          /\ inTrace[i].lvl < inTrace[i + 1].lvl
    /\ \E i \in 1..Len(inTrace) : inTrace[i].priority = 5
    /\ Len(outTrace) = 4

\* C6: a model whose subclasses declare no manipulator resolves to exactly
\* the identifier-renaming manipulator (priority 0) and the parse-inputs
\* manipulator (priority 7), and its incoming pipeline starts with the
\* identifier renaming.
C6_TwoDefaults ==
    Flatten(classes) = <<>> =>
        /\ manipulators = <<IdMan, ParseMan>>
        /\ "in" \in applied => inTrace[1] = IdMan

(***************************************************************************)
(* The parser and the parse-inputs manipulator.                            *)
(***************************************************************************)
\* the keys under which the schema of the last call declares a default
WithDefault(sch) ==
    {k \in Keys : sch.isDict /\ ~sch.propsNone /\ sch.props[k].dflt # NoneV}

\* no default of the schema is a factory
NoFactory(sch) ==
    /\ \A k \in Keys : sch.props[k].dflt.t # "factory"
    /\ sch.extra.dflt.t # "factory"

\* C7: the parse-inputs manipulator, on CREATE or REPLACE, returns the whole
\* document parsed against the schema of the model with defaults (a declared
\* default stands in for every key left out or None); on UPDATE it keeps the
\* operators of the update document, leaves the value of every operator but
\* $set as it was, replaces the value of $set by its parse without defaults
\* (a key left out stays out, no default stands in for a None), and returns
\* an update document without $set unchanged.
C7_ParseInputs ==
    (last.op = "transform" /\ ~last.raised) =>
        /\ last.action \in {"CREATE", "REPLACE"} =>
              /\ last.out = ModelParse(last.sch, FALSE, last.in, TRUE, last.clk).f
              /\ \A k \in WithDefault(last.sch) :
                    last.in[k] \in {Absent, NoneV}
                        => last.out[k] \notin {Absent, NoneV}
        /\ last.action = "UPDATE" =>
              /\ last.oops = last.ops
              /\ last.out = last.in
              /\ \A o \in OpKeys \ {"$set"} : last.obody[o] = last.body[o]
              /\ "$set" \notin last.ops => last.obody = last.body
              /\ "$set" \in last.ops =>
                    /\ last.obody["$set"] =
                          ModelParse(last.sch, FALSE, last.body["$set"], FALSE,
                                     last.clk).f
                    /\ \A k \in Keys :
                          /\ last.body["$set"][k] = Absent
                                => last.obody["$set"][k] = Absent
                          /\ last.body["$set"][k] = NoneV
                                => last.obody["$set"][k] \in {NoneV, Absent}

\* C7 witness: an update with $set and $inc against a schema that declares
\* a default for "a": $set leaves "a" out and carries a hex identifier,
\* which comes back as an ObjectId, and "a" is still left out.
C7_Witness ==
    /\ last.op = "transform"
    /\ last.action = "UPDATE"
    /\ ~last.raised
    /\ last.ops = {"$set", "$inc"}
    /\ "a" \in WithDefault(last.sch)
    /\ last.body["$set"]["a"] = Absent
    /\ last.body["$set"]["_id"] = S("hex", 1)
    /\ last.obody["$set"]["_id"] = S("oid", 1)
    /\ last.obody["$set"]["a"] = Absent
    /\ last.obody["$inc"]["a"] = S("num", 2)

\* C8: a parse in root mode with defaults, against an object schema that
\* declares no identifier property, returns a document that has an
\* identifier value under _id, whatever the input.
C8_RootParseHasId ==
    (/\ last.op = "parse"
     /\ last.root
     /\ last.wd
     /\ ~last.raised
     /\ last.sch.isDict
     /\ PropsOf(last.sch, FALSE)["_id"] = NoField)
        => last.out["_id"] \notin {Absent, NoneV}

\* C9: for an object schema none of whose defaults is a factory, and an
\* input on which parsing with defaults succeeds, parsing the result with
\* defaults again returns the same document.
C9_ParseIdempotent ==
    (/\ last.op = "again"
     /\ last.wd
     /\ last.sch.isDict
     /\ NoFactory(last.sch)
     /\ ~last.raised
     /\ ~last.againRaised)
        => last.again = last.out

\* the resolved default of a field: the factory called at the time of the
\* call, the static value, or None
OwnDefault(f, clk) ==
    IF f.dflt = NoneV THEN NoneV
    ELSE IF f.dflt.t = "factory" THEN S("tick", clk)
    ELSE f.dflt

\* C10: for a field of every kind, parse(None) without defaults returns
\* None, and with defaults returns the field's own resolved default (a fresh
\* factory call, an unaliased copy of the static default, or None).
C10_NoneParsesToDefault ==
    last.op = "none_in" =>
        /\ ~last.raised
        /\ ~last.wd => last.outNone
        /\ last.wd =>
              /\ ~last.outDoc
              /\ last.v = OwnDefault(last.field, last.clk)
              /\ ~last.alias

(***************************************************************************)
(* Claims on the reads.                                                    *)
(***************************************************************************)
\* the stored documents the filter of the last read matched
Hits == Matching(AsQuery(rd.filter), rd.before)

\* C11: get(filter) raises NoDocumentFound when no stored document matches,
\* MultipleDocumentsFound when more than one matches, returns the matching
\* document when exactly one matches, and leaves the stored documents as
\* they were in all three cases.
C11_GetOneOrRaise ==
    rd.op = "get" =>
        /\ Cardinality(Hits) = 0 =>
              rd.exc = "NoDocumentFound" /\ ~rd.found
        /\ Cardinality(Hits) > 1 =>
              rd.exc = "MultipleDocumentsFound" /\ ~rd.found
        /\ Cardinality(Hits) = 1 =>
              rd.exc = "none" /\ rd.found /\ Hits = {rd.doc}
        /\ store = rd.before

\* C11 witness: get with a filter on the name both stored documents have
\* raised MultipleDocumentsFound.
C11_Witness ==
    /\ rd.op = "get"
    /\ rd.filter.kind = "dict"
    /\ rd.filter.key = "name"
    /\ Cardinality(Hits) = 2
    /\ rd.exc = "MultipleDocumentsFound"
    /\ store = rd.before

\* C20: a document a read returns went through each manipulator overriding
\* transform_outgoing exactly once, in priority order; a read that finds
\* nothing invokes none.
C20_OutgoingOnce ==
    rd.op \notin {"none", "find"} =>
        /\ rd.found => rd.trace = SelectSeq(manipulators, OverridesOutgoing)
        /\ ~rd.found => rd.trace = <<>>

(***************************************************************************)
(* Claims on the compilation.                                              *)
(***************************************************************************)
\* the typed leaf classes other than the null field
TypedLeaves == {"StringField", "IntField"}

\* C12: for a typed leaf field other than the null field, each call of
\* schema() renders bsonType as the bare type tag when the required flag is
\* true at that call and as the list [type, "null"] when it is false.
C12_BsonTypeFollowsRequired ==
    \A i \in 1..Len(comp) :
        comp[i].f.cls \in TypedLeaves =>
            comp[i].out.bsonType =
                IF comp[i].f.required
                  THEN [list |-> FALSE, of |-> <<TypeOf(comp[i].f.cls)>>]
                  ELSE [list |-> TRUE, of |-> <<TypeOf(comp[i].f.cls), "null">>]

\* C12 witness: two calls on a string field whose flag was set in between:
\* the first rendered the list, the second the bare tag.
C12_Witness ==
    /\ Len(comp) = 2
    /\ comp[1].f.cls = "StringField"
    /\ ~comp[1].f.required
    /\ comp[2].f.required
    /\ comp[1].out.bsonType = [list |-> TRUE, of |-> <<"string", "null">>]
    /\ comp[2].out.bsonType = [list |-> FALSE, of |-> <<"string">>]

\* the fragment of a child compiled as a required field: a typed leaf is
\* the bare tag, a union has one branch for each of its fields and no more
AsRequired(child, frag) ==
    /\ child.cls \in TypedLeaves =>
          frag.bsonType = [list |-> FALSE, of |-> <<TypeOf(child.cls)>>]
    /\ child.cls \in Unions => Len(frag.branches) = Len(child.fields)
    /\ frag = Schema([child EXCEPT !.required = TRUE])

\* C13: a union compiles every field it was given as a required field,
\* whatever the field's own flag; OneOf and AnyOf append a null branch last
\* exactly when the union is not required, AllOf never does; the key is
\* oneOf, anyOf or allOf by the class.
C13_UnionBranches ==
    \A i \in 1..Len(comp) :
        LET f == comp[i].f
            out == comp[i].out
            n == Len(f.fields)
            nullLast == f.cls \in {"OneOf", "AnyOf"} /\ ~f.required
        IN  f.cls \in Unions =>
              /\ out.key = (CASE f.cls = "OneOf" -> "oneOf"
                              [] f.cls = "AnyOf" -> "anyOf"
                              [] OTHER -> "allOf")
              /\ Len(out.branches) = IF nullLast THEN n + 1 ELSE n
              /\ \A j \in 1..n : AsRequired(f.fields[j], out.branches[j])
              /\ nullLast =>
                    out.branches[n + 1] =
                        [bsonType |-> [list |-> FALSE, of |-> <<"null">>],
                         key |-> "none", branches |-> <<>>]

\* C13 witness: an AllOf that is not required, of a string field that is
\* not required and a OneOf that is not required, compiled to two branches:
\* the bare string tag, and a oneOf of one branch.
C13_Witness ==
    /\ Len(comp) >= 1
    /\ comp[1].f.cls = "AllOf"
    /\ ~comp[1].f.required
    /\ Len(comp[1].f.fields) = 2
    /\ comp[1].f.fields[1] = FieldNode("StringField", FALSE, <<>>)
    /\ comp[1].f.fields[2].cls = "OneOf"
    /\ ~comp[1].f.fields[2].required
    /\ Len(comp[1].out.branches) = 2
    /\ comp[1].out.branches[2].key = "oneOf"
    /\ Len(comp[1].out.branches[2].branches) = 1

(***************************************************************************)
(* Claims on the index normalization.                                      *)
(***************************************************************************)
\* the key a string or a pair stands for: a pair itself, a string prefixed
\* "-" the rest descending, prefixed "+" the rest ascending, a bare string
\* itself ascending
KeyFor(e) ==
    IF e.kind = "tuple" THEN <<e.s, e.dir>>
    ELSE IF e.s # <<>> /\ e.s[1] = "-" THEN <<Tail(e.s), 0 - 1>>
    ELSE IF e.s # <<>> /\ e.s[1] = "+" THEN <<Tail(e.s), 1>>
    ELSE <<e.s, 1>>

IsKeyEntry(e) == e.kind \in {"str", "tuple"}

\* a string, a pair, a list of strings and pairs, or an index model
Accepted(e) ==
    \/ IsKeyEntry(e)
    \/ e.kind = "model"
    \/ e.kind = "list" /\ \A j \in 1..Len(e.items) : IsKeyEntry(e.items[j])

\* the keys and the background flag of the normalized indexes, and the
\* rejection of the other entries
KeysAndRejection ==
    /\ ixOut.raised = (\E i \in 1..Len(ixOut.decl) : ~Accepted(ixOut.decl[i]))
    /\ ~ixOut.raised =>
          /\ Len(ixOut.models) = Len(ixOut.decl)
          /\ \A i \in 1..Len(ixOut.decl) :
                LET e == ixOut.decl[i]
                    mo == ixOut.models[i]
                IN  /\ mo.bg
                    /\ IsKeyEntry(e) => mo.keys = <<KeyFor(e)>>
                    /\ e.kind = "list" =>
                          mo.keys = [j \in 1..Len(e.items) |-> KeyFor(e.items[j])]

\* C14 as stated: strings, pairs and lists normalize to the keys they stand
\* for, in order; every normalized index is flagged background; an entry of
\* another type is rejected; and the name of every normalized index is a
\* function of its key list only (equal key lists, equal names).
C14_IndexNormalization ==
    ixOut.called =>
        /\ KeysAndRejection
        /\ \A i, j \in 1..Len(ixOut.models) :
              ixOut.models[i].keys = ixOut.models[j].keys
                  => ixOut.models[i].name = ixOut.models[j].name

\* C14, amended: as stated, but the name is a function of the key list only
\* for the indexes built from strings, pairs and lists; an index model
\* given as an entry keeps its own keys and its own name.
C14_NamesOfBuiltIndexes ==
    ixOut.called =>
        /\ KeysAndRejection
        /\ \A i, j \in 1..Len(ixOut.models) :
              (/\ ixOut.decl[i].kind # "model"
               /\ ixOut.decl[j].kind # "model"
               /\ ixOut.models[i].keys = ixOut.models[j].keys)
                  => ixOut.models[i].name = ixOut.models[j].name
        /\ \A i \in 1..Len(ixOut.models) :
              ixOut.decl[i].kind = "model" =>
                  /\ ixOut.models[i].keys = ixOut.decl[i].keys
                  /\ ixOut.models[i].name = ixOut.decl[i].name

\* C14 witness: ["name", "-createdAt"] as one list entry became one compound
\* index over (name, ascending) and (createdAt, descending), and the pair
\* (name, ascending) after it a single-key index, both flagged background.
C14_Witness ==
    /\ ixOut.called
    /\ ~ixOut.raised
    /\ Len(ixOut.decl) = 2
    /\ ixOut.decl[1] = ListEntry(<<StrEntry(<<"name">>),
                                   StrEntry(<<"-", "createdAt">>)>>)
    /\ ixOut.decl[2] = TupleEntry(<<"name">>, 1)
    /\ ixOut.models[1].keys = << <<<<"name">>, 1>>, <<<<"createdAt">>, 0 - 1>> >>
    /\ ixOut.models[1].bg
    /\ ixOut.models[2].keys = << <<<<"name">>, 1>> >>
    /\ ixOut.models[2].bg

(***************************************************************************)
(* Claims on the effects of the parser on the declared schema and on the   *)
(* update document.                                                        *)
(***************************************************************************)
\* the property names the schema declares
DeclaredProps(sch) ==
    {k \in Keys : ~sch.propsNone /\ sch.props[k] # NoField}

\* C15: no call of a parser, Model.parse in root mode included, changes the
\* declared field tree: the declared properties and the fields under them
\* are after the call what they were before it.
C15_TreeUnchanged ==
    last.op # "none" =>
        /\ DeclaredProps(schema) = DeclaredProps(last.sch)
        /\ schema = last.sch

\* C16: on UPDATE, a dotted path given in $set is in the resulting $set with
\* its value unchanged, whatever the schema and its policy on additional
\* properties.
C16_DottedPathUntouched ==
    (/\ last.op = "transform"
     /\ last.action = "UPDATE"
     /\ "$set" \in last.ops
     /\ ~last.raised
     /\ last.body["$set"]["u.v"] # Absent)
        => last.obody["$set"]["u.v"] = last.body["$set"]["u.v"]

(***************************************************************************)
(* Claims on the order of synchronization, on threads and on failures.     *)
(***************************************************************************)
\* the event a comes before the event b wherever both are in the log
Before(lg, a, b) ==
    \A i, j \in 1..Len(lg) : (lg[i] = a /\ lg[j] = b) => i < j

\* C17: in an operation that synchronizes, the synchronization comes before
\* the incoming manipulators are applied and before the storage is accessed.
C17_SyncFirst ==
    \A t \in Threads :
        /\ Before(log[t], "sync", "manip")
        /\ Before(log[t], "sync", "store")

\* C18: once every thread has finished and no storage command has failed on
\* its name, the collection of an accessed auto-update model is marked up to
\* date.
C18_MarkedWhenAllDone ==
    (\A t \in Threads : pc[t] = "idle") =>
        \A m \in accessed :
            name(m) \notin failedOn => InList(name(m), upToDate)

\* C18 witness: both threads, on their first access of A, found the marker
\* unset and ran _update from c() to its end: two runs for one collection,
\* which is marked now that both have finished.
C18_Witness ==
    /\ \A t \in Threads :
          /\ pc[t] = "idle"
          /\ cur[t] = "A"
          /\ viaC[t]
          /\ ~startMarked[t]
          /\ synced[t]
    /\ autoRuns["A"] = 2
    /\ failedOn = {}
    /\ InList(name("A"), upToDate)

\* C19: when a storage command of a synchronization entered from c() has
\* raised, the operation has ended with the exception, it has not run the
\* rest of the synchronization nor its storage call, it has entered the
\* synchronization no more than once, and the collection is not marked.
C19_FailurePropagates ==
    \A t \in Threads :
        (raised[t] /\ viaC[t]) =>
            /\ pc[t] = "idle"
            /\ ~synced[t]
            /\ ~InList("store", log[t])
            /\ Cardinality({i \in 1..Len(log[t]) : log[t][i] = "sync"}) <= 1
            /\ ~InList(name(cur[t]), upToDate)

\* C19 witness: the first write on A created the collection and then a
\* storage command of the synchronization raised.
C19_Witness ==
    /\ raised[1]
    /\ viaC[1]
    /\ cur[1] = "A"
    /\ log[1] = <<"manip", "sync">>
    /\ NS("A") \in colls
    /\ pc[1] = "idle"
    /\ ~InList(name("A"), upToDate)

\* C21: when an operation of an auto-update model has reached its storage
\* call, the model's own collection (its name in its own database) exists
\* and carries a validator a synchronization installed, whichever models of
\* the same collection name were synchronized before.
C21_OwnCollectionReconciled ==
    \A t \in Threads :
        (InList("store", log[t]) /\ auto_update(cur[t])) =>
            /\ NS(cur[t]) \in colls
            /\ liveVal[NS(cur[t])] # "none"

====
